---------------------------- MODULE Spec2Model ----------------------------
(***************************************************************************)
(* A model of spotify_api.py: the Puller client (token exchange,          *)
(* authenticated requests with _rate_limit_check, pagination drain,       *)
(* playlist materialization, add/remove track) and the control endpoint   *)
(* handler (handle_api, move_current_song).                               *)
(*                                                                         *)
(* The program is single-threaded Python, so it is modelled as one call   *)
(* stack of frames.  Every action is the code of one function running     *)
(* from where the top frame stands to its next call, return, exit() or    *)
(* exception.  The Spotify API is the environment: it answers each        *)
(* request with a status chosen nondeterministically and, on success,     *)
(* with the body the chosen library / playback state determines.          *)
(***************************************************************************)
EXTENDS Integers, Sequences, FiniteSets, TLC

VARIABLES
    library,      \* the user's playlists on the server: indices into the pool
    playback,     \* the server's answer to "currently playing"
    request,      \* what is being served: a control request [action, body],
                  \* or the Client operation called and its arguments
    stack,        \* the Python call stack, innermost frame last
    ret,          \* the value the last returning function returned
    outcome,      \* "running" | "returned" | "exited" | "crashed"
    error,        \* the exception that ended the process, or ""
    access_token, \* Puller.access_token: the n-th token issued (0: no Puller yet)
    constructed,  \* number of Puller objects constructed
    issued,       \* number of tokens the token endpoint has issued
    log,          \* every request sent and every sleep, in order
    lastStatus,   \* status of the last response received (0: none yet)
    faults,       \* number of non-2xx responses received so far
    uploaded      \* the objects put into the storage bucket, in order

vars == <<library, playback, request, stack, ret, outcome, error,
          access_token, constructed, issued, log, lastStatus, faults,
          uploaded>>

----------------------------------------------------------------------------
(* Bounds of the model *)

\* playlists in the pool the library is drawn from
MaxPlaylists == 3
\* items the server puts on one page of a paging object
PageSize == 2
\* non-2xx responses the server gives in one run
MaxFaults == 2
\* largest Retry-After value the server sends with a 429
MaxRetryAfter == 2

----------------------------------------------------------------------------
(* Values *)

URLS == [token            |-> "accounts/api/token",
         recently_played  |-> "v1/me/player/recently-played",
         list_playlists   |-> "v1/me/playlists",
         playlist         |-> "v1/users/{user_id}/playlists/{playlist_id}",
         devices          |-> "v1/me/player/devices",
         top              |-> "v1/me/top/{type}",
         followed_artists |-> "v1/me/following?type=artist",
         saved_albums     |-> "v1/me/albums",
         saved_tracks     |-> "v1/me/tracks",
         current_track    |-> "v1/me/player/currently-playing",
         add_track        |-> "v1/playlists/{playlist_id}/tracks",
         remove_track     |-> "v1/playlists/{playlist_id}/tracks"]

\* A URL: the template, the ids formatted into it, and the page offset a
\* `next` cursor carries.
Url(path, a, b, offset) == [path |-> path, a |-> a, b |-> b, offset |-> offset]
\* `next` of the last page (null)
NoUrl == Url("", "", "", 0)

API_KEY == "FcZzT3FQgNDLkZVt9WvhPXdcf5sszE1N"

\* str.lower() on the names that occur
lower(s) ==
    CASE s = "Rock" -> "rock"
      [] s = "ROCK" -> "rock"
      [] s = "Jazz" -> "jazz"
      [] s = "JAZZ" -> "jazz"
      [] OTHER -> s

\* a URI is kept as its ':'-separated segments: uri.split(':')
uri_to_id(uri) == uri[Len(uri)]

\* Python truthiness of the JSON values that occur in a request body
JNull == [t |-> "null", s |-> ""]
JStr(s) == [t |-> "str", s |-> s]
Truthy(v) == v.t = "str" /\ v.s # ""

----------------------------------------------------------------------------
(* The server's data *)

PoolId == <<"p1", "p2", "p3", "p4", "p5">>
PoolName == <<"Rock", "Jazz", "ROCK", "jazz", "rock">>

\* the tracks of pool playlist i (opaque items): i of them
PoolTracks(i) == [k \in 1..i |-> 10 * i + k]

\* simplified playlist object, as listed by /me/playlists
SimplePlaylist(i) ==
    [id |-> PoolId[i], owner |-> [id |-> "me"], name |-> PoolName[i],
     uri |-> <<"spotify", "playlist", PoolId[i]>>, type |-> "simple",
     tracks |-> <<>>]

PoolIndex(id) == CHOOSE i \in 1..Len(PoolId) : PoolId[i] = id

Min(a, b) == IF a < b THEN a ELSE b

\* the paging object {items, next} for the page of `all` that starts after
\* `offset` items; `next` is absent (NoUrl) on the last page
PagingObject(all, path, a, b, offset) ==
    [items |-> SubSeq(all, offset + 1, Min(offset + PageSize, Len(all))),
     next  |-> IF offset + PageSize < Len(all)
               THEN Url(path, a, b, offset + PageSize)
               ELSE NoUrl]

ListedPlaylists == [k \in 1..Len(library) |-> SimplePlaylist(library[k])]

\* full playlist object: `tracks` is a paging object
FullPlaylist(i) ==
    [id |-> PoolId[i], owner |-> [id |-> "me"], name |-> PoolName[i],
     uri |-> <<"spotify", "playlist", PoolId[i]>>, type |-> "full",
     tracks |-> PagingObject(PoolTracks(i), URLS.playlist, "me", PoolId[i], 0)]

\* the items of the user's other collections (top artists and tracks,
\* recently played, followed artists, saved albums and tracks): as many as
\* the library has playlists, so that they take one page or several
Collection == PoolTracks(Len(library))

CurrentTrack == [name |-> "Song", uri |-> <<"spotify", "track", "t7">>]

\* The body of a 200/201 response to a request for `url`.
ServerBody(url) ==
    CASE url.path = URLS.list_playlists ->
            PagingObject(ListedPlaylists, URLS.list_playlists, "", "", url.offset)
      [] url.path = URLS.playlist /\ url.offset = 0 ->
            FullPlaylist(PoolIndex(url.b))
      [] url.path = URLS.playlist /\ url.offset > 0 ->
            PagingObject(PoolTracks(PoolIndex(url.b)), URLS.playlist,
                         url.a, url.b, url.offset)
      [] url.path = URLS.current_track -> playback
      [] url.path = URLS.add_track -> [snapshot_id |-> url.a]
      [] url.path = URLS.devices -> [devices |-> <<"d1">>]
      [] OTHER -> PagingObject(Collection, url.path, url.a, url.b, url.offset)

----------------------------------------------------------------------------
(* The call stack *)

Frame(fn, pc, args, loc) == [fn |-> fn, pc |-> pc, args |-> args, loc |-> loc]
NoArgs == [none |-> TRUE]

Top == stack[Len(stack)]
Running(fn) == outcome = "running" /\ Len(stack) > 0 /\ Top.fn = fn

Control(s, r, o, e) ==
    /\ stack' = s
    /\ ret' = r
    /\ outcome' = o
    /\ error' = e

\* what a function does next: call another one (and resume at pc), return,
\* go on within its own frame, raise an uncaught exception, or exit()
Call(pc, loc, frame) == [op |-> "call", pc |-> pc, loc |-> loc, frame |-> frame]
Return(value) == [op |-> "return", value |-> value]
Goto(pc, loc) == [op |-> "goto", pc |-> pc, loc |-> loc]
Raise(e) == [op |-> "raise", e |-> e]
Exit == [op |-> "exit"]

Do(cmd) ==
    CASE cmd.op = "call" ->
            Control(Append([stack EXCEPT ![Len(stack)].pc = cmd.pc,
                                         ![Len(stack)].loc = cmd.loc],
                           cmd.frame),
                    ret, "running", "")
      [] cmd.op = "return" ->
            Control(SubSeq(stack, 1, Len(stack) - 1), cmd.value,
                    IF Len(stack) = 1 THEN "returned" ELSE "running", "")
      [] cmd.op = "goto" ->
            Control([stack EXCEPT ![Len(stack)].pc = cmd.pc,
                                  ![Len(stack)].loc = cmd.loc],
                    ret, "running", "")
      [] cmd.op = "raise" -> Control(stack, ret, "crashed", cmd.e)
      [] cmd.op = "exit" -> Control(stack, ret, "exited", "")

NoIO == UNCHANGED <<log, lastStatus, faults>>
SamePuller == UNCHANGED <<access_token, constructed, issued>>
SameWorld == UNCHANGED <<library, playback, request, uploaded>>

----------------------------------------------------------------------------
(* Requests, responses and the log *)

Statuses == {200, 201, 204, 400, 403, 429, 500}
Success == {200, 201}

StatusChoices == IF faults < MaxFaults THEN Statuses ELSE Success
RetryAfters(status) == IF status = 429 THEN 1..MaxRetryAfter ELSE {0}

StatusClass(status) ==
    CASE status \in {200, 201} -> "ok"
      [] status = 429 -> "limited"
      [] status \in {400, 403} -> "fatal"
      [] OTHER -> "other"

\* a request sent without the bearer header
Request_without_bearer(method, url, data) ==
    [method |-> method, url |-> url, data |-> data, auth |-> 0]

\* a request as sent: the bearer token is the Puller's auth_headers
Request(method, url, data) ==
    [method |-> method, url |-> url, data |-> data, auth |-> access_token]

ReqEvent(req, status, retry_after) ==
    [ev |-> "req", req |-> req, class |-> StatusClass(status),
     retry_after |-> retry_after, t |-> 0]
SleepEvent(t) ==
    [ev |-> "sleep", req |-> Request("", NoUrl, <<>>), class |-> "",
     retry_after |-> 0, t |-> t]

\* _rate_limit_check with 400/403 taken for a success
_rate_limit_check_fatal_passed(code, retry_after) ==
    IF code = 429
    THEN [kind |-> "raise", resend |-> FALSE, sleep |-> <<>>,
          e |-> "NameError: name 'r' is not defined"]
    ELSE IF code \in {200, 201, 400, 403}
    THEN [kind |-> "return", resend |-> FALSE, sleep |-> <<>>, e |-> ""]
    ELSE [kind |-> "return", resend |-> TRUE, sleep |-> <<5>>, e |-> ""]

\* _rate_limit_check with 400/403 falling into the last branch (sleep and
\* resend) instead of exiting
_rate_limit_check_fatal_retried(code, retry_after) ==
    IF code = 429
    THEN [kind |-> "raise", resend |-> FALSE, sleep |-> <<>>,
          e |-> "NameError: name 'r' is not defined"]
    ELSE IF code \in {200, 201}
    THEN [kind |-> "return", resend |-> FALSE, sleep |-> <<>>, e |-> ""]
    ELSE [kind |-> "return", resend |-> TRUE, sleep |-> <<5>>, e |-> ""]

\* Puller._rate_limit_check: what the check of a response does.  `resend` is
\* its return value, `sleep` the time.sleep calls it made before returning,
\* raising or exiting.
_rate_limit_check(code, retry_after) ==
    IF code = 429
    THEN \* line 76 reads `r`, which is not defined in this function
         [kind |-> "raise", resend |-> FALSE, sleep |-> <<>>,
          e |-> "NameError: name 'r' is not defined"]
    ELSE IF code \in {200, 201}
    THEN [kind |-> "return", resend |-> FALSE, sleep |-> <<>>, e |-> ""]
    ELSE IF code \in {400, 403}
    THEN [kind |-> "exit", resend |-> FALSE, sleep |-> <<>>, e |-> ""]
    ELSE [kind |-> "return", resend |-> TRUE, sleep |-> <<5>>, e |-> ""]

\* self.sess.<method>(...) with the bearer header, then
\* `if self._rate_limit_check(r): <on_resend>` else <on_ok>
AuthRequest(req, on_resend, on_ok) ==
    \E status \in StatusChoices :
      \E retry_after \in RetryAfters(status) :
        LET chk == _rate_limit_check(status, retry_after) IN
        /\ log' = log \o <<ReqEvent(req, status, retry_after)>>
                      \o [i \in 1..Len(chk.sleep) |-> SleepEvent(chk.sleep[i])]
        /\ lastStatus' = status
        /\ faults' = faults + (IF status \in Success THEN 0 ELSE 1)
        /\ Do(CASE chk.kind = "raise" -> Raise(chk.e)
                [] chk.kind = "exit" -> Exit
                [] chk.kind = "return" /\ chk.resend -> on_resend
                [] OTHER -> on_ok)
        /\ SamePuller
        /\ SameWorld

\* the step of a function that only hands on what its callee returned
HandOn(value) ==
    /\ Do(Return(value))
    /\ NoIO
    /\ SamePuller
    /\ SameWorld

----------------------------------------------------------------------------
(* Puller *)

TokenRequest ==
    [method |-> "POST", url |-> Url(URLS.token, "", "", 0),
     data |-> <<"refresh_token">>, auth |-> 0]

\* Puller._refresh_token: one POST to the token endpoint, no status check;
\* r.json()['access_token'] raises when the answer carries no token.
_refresh_token(status) ==
    IF status \in Success
    THEN [kind |-> "return", token |-> issued + 1, e |-> ""]
    ELSE [kind |-> "raise", token |-> 0, e |-> "KeyError: 'access_token'"]

\* Puller.__init__, called as Puller(); `resume` is where the caller goes on
Puller(resume) ==
    \E status \in StatusChoices :
      LET got == _refresh_token(status) IN
      /\ log' = Append(log, ReqEvent(TokenRequest, status, 0))
      /\ lastStatus' = status
      /\ faults' = faults + (IF status \in Success THEN 0 ELSE 1)
      /\ issued' = IF got.kind = "return" THEN issued + 1 ELSE issued
      /\ access_token' = IF got.kind = "return" THEN got.token ELSE access_token
      /\ constructed' = IF got.kind = "return" THEN constructed + 1 ELSE constructed
      /\ Do(IF got.kind = "return" THEN resume ELSE Raise(got.e))
      /\ SameWorld

get_top_frame(type_, time_range) ==
    Frame("get_top", "start", [type_ |-> type_, time_range |-> time_range], NoArgs)

\* lines 92-110; the retry names get_tops, which Puller does not have
get_top ==
    /\ Running("get_top")
    /\ Top.pc = "start"
    /\ AuthRequest(Request("GET", Url(URLS.top, Top.args.type_, Top.args.time_range, 0),
                           <<"limit=50">>),
                   Raise("AttributeError: 'Puller' object has no attribute 'get_tops'"),
                   Return(ServerBody(Url(URLS.top, Top.args.type_, Top.args.time_range, 0))))

get_devices_frame == Frame("get_devices", "start", NoArgs, NoArgs)

\* lines 112-117
get_devices ==
    /\ Running("get_devices")
    /\ \/ /\ Top.pc = "start"
          /\ AuthRequest(Request("GET", Url(URLS.devices, "", "", 0), <<>>),
                         Call("L116", NoArgs, get_devices_frame),
                         Return(ServerBody(Url(URLS.devices, "", "", 0))))
       \/ /\ Top.pc = "L116"
          /\ HandOn(ret)

\* _iterate_paging_object starting from an empty list instead of the items
\* of the first page
_iterate_paging_object_frame_first_dropped(first_page) ==
    Frame("_iterate_paging_object", "L129", [first_page |-> first_page],
          [page |-> first_page, items |-> <<>>])

\* lines 127-128: page = first_page; items = page['items']
_iterate_paging_object_frame(first_page) ==
    Frame("_iterate_paging_object", "L129", [first_page |-> first_page],
          [page |-> first_page, items |-> first_page.items])

\* lines 129-138: one round of the outer while loop per successful GET; a
\* response to resend leaves the frame where it is (`continue`)
_iterate_paging_object ==
    /\ Running("_iterate_paging_object")
    /\ \/ /\ Top.loc.page.next # NoUrl
          /\ LET page == ServerBody(Top.loc.page.next) IN
             AuthRequest(Request("GET", Top.loc.page.next, <<>>),
                         Goto("L129", Top.loc),
                         Goto("L129", [page |-> page,
                                       items |-> Top.loc.items \o page.items]))
       \/ /\ Top.loc.page.next = NoUrl
          /\ HandOn(Top.loc.items)

_get_a_playlist_frame(user_id, playlist_id) ==
    Frame("_get_a_playlist", "start",
          [user_id |-> user_id, playlist_id |-> playlist_id], NoArgs)

\* lines 140-149
_get_a_playlist ==
    /\ Running("_get_a_playlist")
    /\ \/ /\ Top.pc = "start"
          /\ LET url == Url(URLS.playlist, Top.args.user_id, Top.args.playlist_id, 0)
                 j == ServerBody(url) IN
             AuthRequest(Request("GET", url, <<>>),
                         Call("L145", NoArgs,
                              _get_a_playlist_frame(Top.args.user_id,
                                                    Top.args.playlist_id)),
                         Call("L148", [j |-> j],
                              _iterate_paging_object_frame(j.tracks)))
       \/ /\ Top.pc = "L145"
          /\ HandOn(ret)
       \/ /\ Top.pc = "L148"
          /\ HandOn([Top.loc.j EXCEPT !.tracks = ret])

get_playlists_frame == Frame("get_playlists", "start", NoArgs, NoArgs)
get_playlists_short_frame == Frame("get_playlists_short", "start", NoArgs, NoArgs)

\* line 158: what get_playlists_short calls when the request is to be resent
get_playlists_short_retry == get_playlists_frame

\* lines 151-160
get_playlists_short ==
    /\ Running("get_playlists_short")
    /\ \/ /\ Top.pc = "start"
          /\ LET url == Url(URLS.list_playlists, "", "", 0) IN
             AuthRequest(Request("GET", url, <<"limit=50">>),
                         Call("L158", NoArgs, get_playlists_short_retry),
                         Call("L160", NoArgs,
                              _iterate_paging_object_frame(ServerBody(url))))
       \/ /\ Top.pc \in {"L158", "L160"}
          /\ HandOn(ret)

\* line 177: the list comprehension, with `todo` the playlists still to
\* fetch and `done` the full playlists fetched so far
get_full_playlists(todo, done) ==
    IF todo = <<>>
    THEN Return(done)
    ELSE Call("L177", [todo |-> todo, done |-> done],
              _get_a_playlist_frame(todo[1].owner.id, todo[1].id))

\* lines 162-177
get_playlists ==
    /\ Running("get_playlists")
    /\ NoIO
    /\ SamePuller
    /\ SameWorld
    /\ \/ /\ Top.pc = "start"
          /\ Do(Call("L177_list", NoArgs, get_playlists_short_frame))
       \/ /\ Top.pc = "L177_list"
          /\ Do(get_full_playlists(ret, <<>>))
       \/ /\ Top.pc = "L177"
          /\ Do(get_full_playlists(Tail(Top.loc.todo), Append(Top.loc.done, ret)))

_get_simple_endpoint_frame(url) ==
    Frame("_get_simple_endpoint", "start", [url |-> url], NoArgs)

\* lines 179-185
_get_simple_endpoint ==
    /\ Running("_get_simple_endpoint")
    /\ \/ /\ Top.pc = "start"
          /\ AuthRequest(Request("GET", Url(Top.args.url, "", "", 0), <<"limit=50">>),
                         Call("L184", NoArgs, _get_simple_endpoint_frame(Top.args.url)),
                         Return(ServerBody(Url(Top.args.url, "", "", 0))))
       \/ /\ Top.pc = "L184"
          /\ HandOn(ret)

get_current_track_frame == Frame("get_current_track", "start", NoArgs, NoArgs)

\* lines 200-206
get_current_track ==
    /\ Running("get_current_track")
    /\ \/ /\ Top.pc = "start"
          /\ AuthRequest(Request("GET", Url(URLS.current_track, "", "", 0), <<>>),
                         Call("L205", NoArgs, get_current_track_frame),
                         Return(ServerBody(Url(URLS.current_track, "", "", 0))))
       \/ /\ Top.pc = "L205"
          /\ HandOn(ret)

remove_track_frame(playlist_id, track_uri) ==
    Frame("remove_track", "start",
          [playlist_id |-> playlist_id, track_uri |-> track_uri], NoArgs)

\* lines 208-217
remove_track ==
    /\ Running("remove_track")
    /\ \/ /\ Top.pc = "start"
          /\ LET url == Url(URLS.remove_track, Top.args.playlist_id, "", 0) IN
             AuthRequest(Request("DELETE", url, <<Top.args.track_uri>>),
                         Call("L216", NoArgs,
                              remove_track_frame(Top.args.playlist_id,
                                                 Top.args.track_uri)),
                         Return(ServerBody(url)))
       \/ /\ Top.pc = "L216"
          /\ HandOn(ret)

add_track_frame(playlist_id, track_uri) ==
    Frame("add_track", "start",
          [playlist_id |-> playlist_id, track_uri |-> track_uri], NoArgs)

\* lines 219-228
add_track ==
    /\ Running("add_track")
    /\ \/ /\ Top.pc = "start"
          /\ LET url == Url(URLS.add_track, Top.args.playlist_id, "", 0) IN
             AuthRequest(Request("POST", url, <<Top.args.track_uri>>),
                         Call("L227", NoArgs,
                              add_track_frame(Top.args.playlist_id,
                                              Top.args.track_uri)),
                         Return(ServerBody(url)))
       \/ /\ Top.pc = "L227"
          /\ HandOn(ret)

----------------------------------------------------------------------------
(* The control endpoint handler *)

\* a message: the format string and what is formatted into it
Msg(text, a, b) == [text |-> text, a |-> a, b |-> b]
Response(msg, status) == [msg |-> msg, status |-> status]

\* line 294 comparing the playlist's name as it is, not lowered
matching_unlowered(playlists, target_playlist) ==
    SelectSeq(playlists, LAMBDA x : x.name = target_playlist)

\* line 294: the playlists whose lowered name is the (lowered) target
matching(playlists, target_playlist) ==
    SelectSeq(playlists, LAMBDA x : lower(x.name) = target_playlist)

\* lines 286-287 without the test of the context type
source_id_of_any_context(r) == <<uri_to_id(r.context[1].uri)>>

\* lines 286-287: source_id is bound only under a playlist context
\* (<<>>: the local is unbound)
source_id_of(r) ==
    IF r.context[1].type = "playlist"
    THEN <<uri_to_id(r.context[1].uri)>>
    ELSE <<>>

UnboundSourceId ==
    Raise("UnboundLocalError: local variable 'source_id' referenced before assignment")

move_current_song_frame(target_playlist, add) ==
    Frame("move_current_song", "start",
          [target_playlist |-> target_playlist, add |-> add], NoArgs)

\* lines 281-293 reading the playlist list for a target before looking at
\* what is playing
move_current_song_L281_target_first(r, target_playlist) ==
    IF Truthy(target_playlist)
    THEN Call("L294",
              [target_playlist |-> target_playlist, track_name |-> "",
               track |-> <<>>, source_id |-> <<>>, target_name |-> ""],
              get_playlists_short_frame)
    ELSE IF Len(r.item) = 0
    THEN Return(Msg("Nothing is playing", "", ""))
    ELSE UnboundSourceId

\* lines 281-293, with r the current-playback response
move_current_song_L281(r, target_playlist) ==
    IF Len(r.item) = 0
    THEN Return(Msg("Nothing is playing", "", ""))
    ELSE IF Len(r.context) = 0
    THEN Raise("TypeError: 'NoneType' object is not subscriptable")
    ELSE LET loc == [target_playlist |-> target_playlist,
                     track_name |-> r.item[1].name,
                     track |-> r.item[1].uri,
                     source_id |-> source_id_of(r),
                     target_name |-> ""] IN
         IF ~Truthy(target_playlist)
         THEN IF loc.source_id = <<>>
              THEN UnboundSourceId
              ELSE Call("L291", loc, remove_track_frame(loc.source_id[1], loc.track))
         ELSE Call("L294", loc, get_playlists_short_frame)

\* lines 294-302 removing the track from the source where the code adds
\* it to the target
move_current_song_L294_remove_first(playlists, loc) ==
    LET target == matching(playlists, loc.target_playlist.s) IN
    IF Len(target) # 1
    THEN Return(Msg("No such playlist '{}'", loc.target_playlist.s, ""))
    ELSE IF loc.source_id = <<>>
    THEN UnboundSourceId
    ELSE Call("L303", [loc EXCEPT !.target_name = target[1].name],
              remove_track_frame(loc.source_id[1], loc.track))

\* lines 294-302, with playlists what get_playlists_short returned
move_current_song_L294(playlists, loc) ==
    LET target == matching(playlists, loc.target_playlist.s) IN
    IF Len(target) = 1
    THEN Call("L303", [loc EXCEPT !.target_name = target[1].name],
              add_track_frame(uri_to_id(target[1].uri), loc.track))
    ELSE Return(Msg("No such playlist '{}'", loc.target_playlist.s, ""))

\* lines 303-306 without the test of `add`: the track is always removed
move_current_song_L303_always_remove(add, loc) ==
    IF loc.source_id = <<>>
    THEN UnboundSourceId
    ELSE Call("L307", loc, remove_track_frame(loc.source_id[1], loc.track))

\* lines 303-306
move_current_song_L303(add, loc) ==
    IF add
    THEN Return(Msg("\"{}\" added to \"{}\"", loc.track_name, loc.target_name))
    ELSE IF loc.source_id = <<>>
    THEN UnboundSourceId
    ELSE Call("L307", loc, remove_track_frame(loc.source_id[1], loc.track))

\* lines 272-307
move_current_song ==
    /\ Running("move_current_song")
    /\ \/ /\ Top.pc = "start"
          /\ Puller(Call("L281",
                         IF Truthy(Top.args.target_playlist)
                         THEN JStr(lower(Top.args.target_playlist.s))
                         ELSE Top.args.target_playlist,
                         get_current_track_frame))
       \/ /\ Top.pc = "L281"
          /\ Do(move_current_song_L281(ret, Top.loc))
          /\ NoIO /\ SamePuller /\ SameWorld
       \/ /\ Top.pc = "L291"
          /\ HandOn(Msg("\"{}\" deleted from current playlist", Top.loc.track_name, ""))
       \/ /\ Top.pc = "L294"
          /\ Do(move_current_song_L294(ret, Top.loc))
          /\ NoIO /\ SamePuller /\ SameWorld
       \/ /\ Top.pc = "L303"
          /\ Do(move_current_song_L303(Top.args.add, Top.loc))
          /\ NoIO /\ SamePuller /\ SameWorld
       \/ /\ Top.pc = "L307"
          /\ HandOn(Msg("\"{}\" moved to \"{}\"", Top.loc.track_name, Top.loc.target_name))

\* lines 312-318: request.get_json(), else json.loads(request.data.decode()),
\* else None.  A body is [kind, obj]: kind "missing" (no data), "notjson",
\* "list" (JSON, but a non-empty array) or "obj" (a JSON object, obj its
\* members).
NoJson == [kind |-> "none", obj |-> <<>>]
get_json(body) == IF body.kind \in {"obj", "list"} THEN body ELSE NoJson

\* `not j`
IsFalsy(j) == j.kind = "none" \/ (j.kind = "obj" /\ DOMAIN j.obj = {})

\* j.get('api_key', None)
get_api_key(j) == IF "api_key" \in DOMAIN j.obj THEN j.obj.api_key ELSE JNull

handle_api_frame(action) ==
    Frame("handle_api", "start", [action |-> action], NoArgs)

\* lines 331-342, with result what move_current_song(None) returned if the
\* action is "del"
handle_api_L331(action, j, result) ==
    IF "target_playlist" \notin DOMAIN j.obj
    THEN Raise("KeyError: 'target_playlist'")
    ELSE IF ~Truthy(j.obj.target_playlist)
    THEN Return(Response(Msg("No target_playlist", "", ""), 403))
    ELSE IF action = "move"
    THEN Call("L341", [j |-> j], move_current_song_frame(j.obj.target_playlist, FALSE))
    ELSE IF action = "add"
    THEN Call("L341", [j |-> j], move_current_song_frame(j.obj.target_playlist, TRUE))
    ELSE Return(Response(result, 200))

\* lines 312-335 without the comparison of api_key with the secret
handle_api_start_any_key(action, body) ==
    LET j == get_json(body) IN
    IF IsFalsy(j)
    THEN Return(Response(Msg("Invalid api_key (no JSON body)", "", ""), 403))
    ELSE IF j.kind = "list"
    THEN Raise("AttributeError: 'list' object has no attribute 'get'")
    ELSE IF action = "del"
    THEN Call("L331", [j |-> j], move_current_song_frame(JNull, FALSE))
    ELSE handle_api_L331(action, j, Msg("", "", ""))

\* lines 312-335, up to the first call of move_current_song
handle_api_start(action, body) ==
    LET j == get_json(body) IN
    IF IsFalsy(j)
    THEN Return(Response(Msg("Invalid api_key (no JSON body)", "", ""), 403))
    ELSE IF j.kind = "list"
    THEN Raise("AttributeError: 'list' object has no attribute 'get'")
    ELSE IF get_api_key(j) # JStr(API_KEY)
    THEN Return(Response(Msg("Invalid api_key", "", ""), 403))
    ELSE IF action = "del"
    THEN Call("L331", [j |-> j], move_current_song_frame(JNull, FALSE))
    ELSE handle_api_L331(action, j, Msg("", "", ""))

\* lines 311-342
handle_api ==
    /\ Running("handle_api")
    /\ NoIO
    /\ SamePuller
    /\ SameWorld
    /\ \/ /\ Top.pc = "start"
          /\ Do(handle_api_start(Top.args.action, request.body))
       \/ /\ Top.pc = "L331"
          /\ Do(handle_api_L331(Top.args.action, Top.loc.j, ret))
       \/ /\ Top.pc = "L341"
          /\ Do(Return(Response(ret, 200)))

----------------------------------------------------------------------------
(* The inputs *)

\* the libraries: the pool playlists the user has, in pool order
Libraries ==
    UNION {{s \in [1..n -> 1..MaxPlaylists] : \A i \in 1..(n - 1) : s[i] < s[i + 1]}
           : n \in 0..MaxPlaylists}

\* the answers of "currently playing": nothing; a track played from a
\* playlist, from an album, and with no context
Playbacks ==
    {[item |-> <<>>, context |-> <<>>],
     [item |-> <<CurrentTrack>>,
      context |-> <<[type |-> "playlist",
                     uri |-> <<"spotify", "user", "me", "playlist", "p2">>]>>],
     [item |-> <<CurrentTrack>>,
      context |-> <<[type |-> "album", uri |-> <<"spotify", "album", "a1">>]>>],
     [item |-> <<CurrentTrack>>, context |-> <<>>]}

ApiKeys == {JStr(API_KEY), JStr("wrong"), JNull}
TargetPlaylists == {JNull, JStr(""), JStr("ROCK")}

JsonObjects ==
    {<<>>}
    \cup {[api_key |-> k] : k \in ApiKeys}
    \cup {[target_playlist |-> t] : t \in TargetPlaylists}
    \cup {[api_key |-> k, target_playlist |-> t] : k \in ApiKeys, t \in TargetPlaylists}

Bodies ==
    {[kind |-> "missing", obj |-> <<>>], [kind |-> "notjson", obj |-> <<>>],
     [kind |-> "list", obj |-> <<>>]}
    \cup {[kind |-> "obj", obj |-> o] : o \in JsonObjects}

Actions == {"move", "add", "del"}

\* a control request arrives at /move, /add or /del
Init ==
    /\ library \in Libraries
    /\ playback \in Playbacks
    /\ request \in [action : Actions, body : Bodies]
    /\ stack = <<handle_api_frame(request.action)>>
    /\ ret = NoArgs
    /\ outcome = "running"
    /\ error = ""
    /\ access_token = 0
    /\ constructed = 0
    /\ issued = 0
    /\ log = <<>>
    /\ lastStatus = 0
    /\ faults = 0
    /\ uploaded = <<>>

Next ==
    \/ handle_api
    \/ move_current_song
    \/ get_current_track
    \/ get_playlists_short
    \/ get_playlists
    \/ _get_a_playlist
    \/ _iterate_paging_object
    \/ add_track
    \/ remove_track

Spec == Init /\ [][Next]_vars

----------------------------------------------------------------------------
(* The Client operations on their own: a constructed Puller, one call *)

TopTypes == {"artists", "tracks"}
TimeRanges == {"long_term", "medium_term", "short_term"}
SimpleEndpoints == {URLS.recently_played, URLS.followed_artists,
                    URLS.saved_albums, URLS.saved_tracks}

\* the calls of the Client's operations, as frames
ClientCalls ==
    {get_top_frame(t, r) : t \in TopTypes, r \in TimeRanges}
    \cup {get_devices_frame, get_playlists_short_frame, get_playlists_frame,
          get_current_track_frame}
    \cup {_get_a_playlist_frame("me", PoolId[library[k]]) : k \in 1..Len(library)}
    \cup {_get_simple_endpoint_frame(u) : u \in SimpleEndpoints}
    \cup {add_track_frame(PoolId[library[k]], CurrentTrack.uri) : k \in 1..Len(library)}
    \cup {remove_track_frame(PoolId[library[k]], CurrentTrack.uri) : k \in 1..Len(library)}

InitClient ==
    /\ library \in Libraries
    /\ playback \in Playbacks
    /\ stack \in {<<f>> : f \in ClientCalls}
    /\ request = [action |-> stack[1].fn, body |-> stack[1].args]
    /\ ret = NoArgs
    /\ outcome = "running"
    /\ error = ""
    /\ access_token = 1
    /\ constructed = 1
    /\ issued = 1
    /\ log = <<ReqEvent(TokenRequest, 200, 0)>>
    /\ lastStatus = 200
    /\ faults = 0
    /\ uploaded = <<>>

NextClient ==
    \/ get_top
    \/ get_devices
    \/ get_playlists_short
    \/ get_playlists
    \/ _get_a_playlist
    \/ _iterate_paging_object
    \/ _get_simple_endpoint
    \/ get_current_track
    \/ add_track
    \/ remove_track

SpecClient == InitClient /\ [][NextClient]_vars

----------------------------------------------------------------------------
(* The snapshot orchestrator *)

\* Python's None
None == [none |-> TRUE]

get_recently_played_frame == Frame("get_recently_played", "start", NoArgs, NoArgs)
get_followed_artists_frame == Frame("get_followed_artists", "start", NoArgs, NoArgs)
get_saved_albums_frame == Frame("get_saved_albums", "start", NoArgs, NoArgs)
get_saved_tracks_frame == Frame("get_saved_tracks", "start", NoArgs, NoArgs)

\* lines 187-189: no return statement, so the call returns None
get_recently_played ==
    /\ Running("get_recently_played")
    /\ NoIO
    /\ SamePuller
    /\ SameWorld
    /\ \/ /\ Top.pc = "start"
          /\ Do(Call("L189", NoArgs, _get_simple_endpoint_frame(URLS.recently_played)))
       \/ /\ Top.pc = "L189"
          /\ Do(Return(None))

\* lines 191-192: no return statement, so the call returns None
get_followed_artists ==
    /\ Running("get_followed_artists")
    /\ NoIO
    /\ SamePuller
    /\ SameWorld
    /\ \/ /\ Top.pc = "start"
          /\ Do(Call("L192", NoArgs, _get_simple_endpoint_frame(URLS.followed_artists)))
       \/ /\ Top.pc = "L192"
          /\ Do(Return(None))

\* lines 194-195: no return statement, so the call returns None
get_saved_albums ==
    /\ Running("get_saved_albums")
    /\ NoIO
    /\ SamePuller
    /\ SameWorld
    /\ \/ /\ Top.pc = "start"
          /\ Do(Call("L195", NoArgs, _get_simple_endpoint_frame(URLS.saved_albums)))
       \/ /\ Top.pc = "L195"
          /\ Do(Return(None))

\* lines 197-198: no return statement, so the call returns None
get_saved_tracks ==
    /\ Running("get_saved_tracks")
    /\ NoIO
    /\ SamePuller
    /\ SameWorld
    /\ \/ /\ Top.pc = "start"
          /\ Do(Call("L198", NoArgs, _get_simple_endpoint_frame(URLS.saved_tracks)))
       \/ /\ Top.pc = "L198"
          /\ Do(Return(None))

\* the plan with devices fetched before recently played
PullPlan_devices_first ==
    <<[key |-> "playlists", call |-> get_playlists_frame],
      [key |-> "devices", call |-> get_devices_frame],
      [key |-> "recently_played", call |-> get_recently_played_frame],
      [key |-> "top_artists_short", call |-> get_top_frame("artists", "short_term")],
      [key |-> "top_artists_medium", call |-> get_top_frame("artists", "medium_term")],
      [key |-> "top_artists_long", call |-> get_top_frame("artists", "long_term")],
      [key |-> "top_tracks_short", call |-> get_top_frame("tracks", "short_term")],
      [key |-> "top_tracks_medium", call |-> get_top_frame("tracks", "medium_term")],
      [key |-> "top_tracks_long", call |-> get_top_frame("tracks", "long_term")],
      [key |-> "followed_artists", call |-> get_followed_artists_frame],
      [key |-> "saved_albums", call |-> get_saved_albums_frame],
      [key |-> "saved_tracks", call |-> get_saved_tracks_frame]>>

\* lines 250-263: the entries of the dict display, evaluated in this order
PullPlan ==
    <<[key |-> "playlists", call |-> get_playlists_frame],
      [key |-> "recently_played", call |-> get_recently_played_frame],
      [key |-> "devices", call |-> get_devices_frame],
      [key |-> "top_artists_short", call |-> get_top_frame("artists", "short_term")],
      [key |-> "top_artists_medium", call |-> get_top_frame("artists", "medium_term")],
      [key |-> "top_artists_long", call |-> get_top_frame("artists", "long_term")],
      [key |-> "top_tracks_short", call |-> get_top_frame("tracks", "short_term")],
      [key |-> "top_tracks_medium", call |-> get_top_frame("tracks", "medium_term")],
      [key |-> "top_tracks_long", call |-> get_top_frame("tracks", "long_term")],
      [key |-> "followed_artists", call |-> get_followed_artists_frame],
      [key |-> "saved_albums", call |-> get_saved_albums_frame],
      [key |-> "saved_tracks", call |-> get_saved_tracks_frame]>>

\* data[key] = value
put(data, key, value) ==
    [k \in DOMAIN data \cup {key} |-> IF k = key THEN value ELSE data[k]]

\* json.dumps(data).encode('utf-8') and gzip.compress(...): the encodings
\* wrap what they encode
dumps(data) == [encoding |-> "json", of |-> data]
compress(bytes) == [encoding |-> "gzip", of |-> bytes]

put_file_frame(content) == Frame("put_file", "start", [content |-> content], NoArgs)

\* lines 230-241: one object.put into the bucket of the stage
put_file ==
    /\ Running("put_file")
    /\ uploaded' = Append(uploaded,
                          [bucket |-> "spotifyapi-dev",
                           key |-> "%Y-%m-%d_%H%M%S_UTC.json.gz",
                           body |-> Top.args.content])
    /\ Do(Return(None))
    /\ NoIO
    /\ SamePuller
    /\ UNCHANGED <<library, playback, request>>

\* lines 251-266: the call of entry i has returned `value`; go on with the
\* next entry, or encode the finished dict and call put_file
pull_L251(i, data, value) ==
    LET filled == put(data, PullPlan[i].key, value) IN
    IF i < Len(PullPlan)
    THEN Call("L251", [i |-> i + 1, data |-> filled], PullPlan[i + 1].call)
    ELSE Call("L266", [i |-> i, data |-> filled],
              put_file_frame(compress(dumps(filled))))

pull_frame == Frame("pull", "start", NoArgs, NoArgs)

\* lines 248-266
pull ==
    /\ Running("pull")
    /\ \/ /\ Top.pc = "start"
          /\ Puller(Call("L251", [i |-> 1, data |-> <<>>], PullPlan[1].call))
       \/ /\ Top.pc = "L251"
          /\ Do(pull_L251(Top.loc.i, Top.loc.data, ret))
          /\ NoIO /\ SamePuller /\ SameWorld
       \/ /\ Top.pc = "L266"
          /\ HandOn(None)

\* pull_handler(event, context): one snapshot run
InitPull ==
    /\ library \in Libraries
    /\ playback = [item |-> <<>>, context |-> <<>>]
    /\ request = [action |-> "pull", body |-> NoArgs]
    /\ stack = <<pull_frame>>
    /\ ret = NoArgs
    /\ outcome = "running"
    /\ error = ""
    /\ access_token = 0
    /\ constructed = 0
    /\ issued = 0
    /\ log = <<>>
    /\ lastStatus = 0
    /\ faults = 0
    /\ uploaded = <<>>

NextPull ==
    \/ pull
    \/ put_file
    \/ get_playlists
    \/ get_playlists_short
    \/ _get_a_playlist
    \/ _iterate_paging_object
    \/ get_recently_played
    \/ get_devices
    \/ get_top
    \/ get_followed_artists
    \/ get_saved_albums
    \/ get_saved_tracks
    \/ _get_simple_endpoint

SpecPull == InitPull /\ [][NextPull]_vars

----------------------------------------------------------------------------
(* What the log shows *)

Requests == {i \in 1..Len(log) : log[i].ev = "req"}
Gets == {i \in Requests : log[i].req.method = "GET"}
Adds == {i \in Requests : log[i].req.method = "POST"
                          /\ log[i].req.url.path = URLS.add_track}
Removes == {i \in Requests : log[i].req.method = "DELETE"}
ListReads == {i \in Requests : log[i].req.url.path = URLS.list_playlists}
Ok(S) == {i \in S : log[i].class = "ok"}
\* the requests sent with a bearer token
Authenticated == {i \in Requests : log[i].req.auth # 0}

\* the pages the server cuts a sequence into, first page first
RECURSIVE PagesFrom(_, _)
PagesFrom(all, offset) ==
    LET page == PagingObject(all, "", "", "", offset) IN
    IF page.next = NoUrl THEN <<page>>
    ELSE <<page>> \o PagesFrom(all, page.next.offset)

RECURSIVE ConcatItems(_)
ConcatItems(pages) ==
    IF pages = <<>> THEN <<>> ELSE pages[1].items \o ConcatItems(Tail(pages))

----------------------------------------------------------------------------
(* C1: a call of get_playlists_short that returns, whatever responses were
   retried on the way, returns the concatenation of the items of the N pages
   of the playlist list in page order, and has made exactly N successful GET
   calls. *)
C1_DrainExact ==
    (request.action = "get_playlists_short" /\ outcome = "returned") =>
        /\ ret = ConcatItems(PagesFrom(ListedPlaylists, 0))
        /\ Cardinality(Ok(Gets)) = Len(PagesFrom(ListedPlaylists, 0))

(* C2: every authenticated request answered 429 with Retry-After k is
   followed by a sleep of k seconds and then, if anything is sent at all, by
   the identical request; the process goes on running; and no sleep follows
   a 200/201 response. *)
C2_SleepRetryAfter ==
    \A i \in Authenticated :
        /\ log[i].class = "limited" =>
              /\ i < Len(log)
              /\ log[i + 1] = SleepEvent(log[i].retry_after)
              /\ i + 2 <= Len(log) => log[i + 2].req = log[i].req
              /\ i + 1 = Len(log) => outcome = "running"
        /\ (log[i].class = "ok" /\ i < Len(log)) => log[i + 1].ev # "sleep"

\* the operations that send one request and return the body of its answer
SingleRequestOps == {"get_top", "get_devices", "_get_simple_endpoint",
                     "get_current_track", "add_track", "remove_track"}

(* C3: every authenticated request answered with a status other than
   200/201/400/403/429 is followed by a sleep of 5 seconds, after which the
   operation is still running and the next request sent is the identical
   one; and an operation that returns returns the body of the successful
   response (for get_playlists_short, the drained playlist list). *)
C3_RetryTransient ==
    /\ \A i \in Authenticated :
          log[i].class = "other" =>
              /\ i < Len(log)
              /\ log[i + 1] = SleepEvent(5)
              /\ i + 2 <= Len(log) => log[i + 2].req = log[i].req
              /\ i + 1 = Len(log) => outcome = "running"
    /\ (outcome = "returned" /\ request.action \in SingleRequestOps) =>
          ret = ServerBody(log[Len(log)].req.url)
    /\ (outcome = "returned" /\ request.action = "get_playlists_short") =>
          ret = ListedPlaylists

(* C4: an authenticated request answered 400 or 403 is the last thing the
   process ever sends or sleeps on, and the process has exited. *)
C4_FatalStops ==
    \A i \in Authenticated :
        log[i].class = "fatal" => (i = Len(log) /\ outcome = "exited")

\* an add_track call answered 403 after the earlier requests succeeded
C4_Witness ==
    /\ outcome = "exited"
    /\ lastStatus = 403
    /\ Len(log) \in Adds
    /\ Len(log) > 3

----------------------------------------------------------------------------
(* The cases of a control request *)

Body == request.body
\* the body is missing, is not JSON, is an object without api_key, or
\* carries an api_key other than the secret
BadSecret ==
    \/ Body.kind \in {"missing", "notjson"}
    \/ /\ Body.kind = "obj"
       /\ \/ "api_key" \notin DOMAIN Body.obj
          \/ Body.obj.api_key # JStr(API_KEY)
ValidKey ==
    /\ Body.kind = "obj"
    /\ "api_key" \in DOMAIN Body.obj
    /\ Body.obj.api_key = JStr(API_KEY)
HasTarget ==
    /\ "target_playlist" \in DOMAIN Body.obj
    /\ Truthy(Body.obj.target_playlist)
\* target_playlist is absent or null
NoTarget ==
    \/ "target_playlist" \notin DOMAIN Body.obj
    \/ Body.obj.target_playlist = JNull

Playing == Len(playback.item) > 0
PlaylistContext == Len(playback.context) > 0 /\ playback.context[1].type = "playlist"
OtherContext == Len(playback.context) > 0 /\ playback.context[1].type # "playlist"
\* the id of the playlist the track is played from
SourcePlaylist == playback.context[1].uri[Len(playback.context[1].uri)]

\* the playlists of the library whose name, lowered, is the lowered target
NameMatches ==
    {k \in 1..Len(library) :
        lower(PoolName[library[k]]) = lower(Body.obj.target_playlist.s)}
TheMatch == PoolId[library[CHOOSE k \in NameMatches : TRUE]]

Responded == outcome = "returned"

(* C5: a control request whose body is missing, is not JSON, lacks api_key
   or carries another api_key is answered 403 by the handler's first step:
   no Puller is constructed, no token is issued, no request is sent, no
   function is called, and the handler neither crashes nor exits. *)
C5_SecretValidation ==
    BadSecret =>
        /\ constructed = 0
        /\ issued = 0
        /\ log = <<>>
        /\ Len(stack) <= 1
        /\ outcome \in {"running", "returned"}
        /\ Responded => ret.status = 403

\* a /del request with a wrong api_key has been answered
C5_Witness ==
    /\ request.action = "del"
    /\ Body.kind = "obj"
    /\ "api_key" \in DOMAIN Body.obj
    /\ Body.obj.api_key = JStr("wrong")
    /\ Responded
    /\ ret.status = 403

(* C6: for move/add with a valid key, a target and a track playing: if
   exactly one playlist of the library matches the target by lowered name,
   every add call goes to that playlist and a request that is answered has
   added the track to it; if none or several match, no add and no remove
   call is ever sent and a request that is answered carries the
   "No such playlist" message. *)
C6_TargetResolution ==
    (request.action \in {"move", "add"} /\ ValidKey /\ HasTarget /\ Playing) =>
        IF Cardinality(NameMatches) = 1
        THEN /\ \A i \in Adds : log[i].req.url.a = TheMatch
                                /\ log[i].req.data = <<CurrentTrack.uri>>
             /\ Responded =>
                   /\ \E i \in Ok(Adds) : log[i].req.url.a = TheMatch
                   /\ ret.msg.text # "No such playlist '{}'"
        ELSE /\ Adds = {}
             /\ Removes = {}
             /\ Responded => ret.msg.text = "No such playlist '{}'"

\* /add to "ROCK" answered, the library holding "Jazz" and "ROCK"
C6_Witness ==
    /\ request.action = "add"
    /\ ValidKey /\ HasTarget /\ Playing
    /\ library = <<2, 3>>
    /\ Responded
    /\ \E i \in Ok(Adds) : log[i].req.url.a = "p3"

(* C7: for move/add with a valid key and a target, when nothing is playing
   no add call, no remove call and no playlist-list read is ever sent, and a
   request that is answered carries "Nothing is playing" with status 200. *)
C7_NothingPlaying ==
    (request.action \in {"move", "add"} /\ ValidKey /\ HasTarget /\ ~Playing) =>
        /\ Adds = {}
        /\ Removes = {}
        /\ ListReads = {}
        /\ Responded => ret = Response(Msg("Nothing is playing", "", ""), 200)

\* /move answered while nothing is playing
C7_Witness ==
    /\ request.action = "move"
    /\ ValidKey /\ HasTarget /\ ~Playing
    /\ Responded
    /\ Gets # {}

(* C8: a delete (valid key) of a track playing under a context that is not
   a playlist sends no remove call and does not crash: with every response
   a success, the handler goes on running or returns. *)
C8_DeleteNoSource ==
    (request.action = "del" /\ ValidKey /\ Playing /\ OtherContext /\ faults = 0) =>
        /\ Removes = {}
        /\ outcome \in {"running", "returned"}

(* C9: a /del request with a valid key and target_playlist absent or null,
   a track playing from a playlist and every response a success, ends
   answered with status 200, having sent exactly one successful remove call,
   for the track on the source playlist, and no add call. *)
C9_DeleteRoute ==
    (request.action = "del" /\ ValidKey /\ NoTarget /\ Playing /\ PlaylistContext
       /\ faults = 0 /\ outcome # "running") =>
        /\ Responded
        /\ ret.status = 200
        /\ Cardinality(Ok(Removes)) = 1
        /\ \A i \in Removes : /\ log[i].req.url.a = SourcePlaylist
                              /\ log[i].req.data = <<CurrentTrack.uri>>
        /\ Adds = {}

(* C10: with a valid key, a track playing from a playlist and exactly one
   playlist matching the target: add and remove calls only ever go to the
   target and to the source playlist; `add` never sends a remove call;
   `move` sends a remove call only after an add call succeeded; and a
   request that is answered has made exactly one successful add call and,
   for `move`, exactly one successful remove call (none for `add`). *)
C10_MoveVersusAdd ==
    (request.action \in {"move", "add"} /\ ValidKey /\ HasTarget /\ Playing
       /\ PlaylistContext /\ Cardinality(NameMatches) = 1) =>
        /\ \A i \in Adds : log[i].req.url.a = TheMatch
        /\ \A i \in Removes : /\ log[i].req.url.a = SourcePlaylist
                              /\ \E k \in Ok(Adds) : k < i
        /\ request.action = "add" => Removes = {}
        /\ Responded =>
              /\ Cardinality(Ok(Adds)) = 1
              /\ Cardinality(Ok(Removes)) = IF request.action = "move" THEN 1 ELSE 0

\* /move answered after the add call had to be sent twice
C10_Witness ==
    /\ request.action = "move"
    /\ ValidKey /\ HasTarget /\ Playing /\ PlaylistContext
    /\ Cardinality(NameMatches) = 1
    /\ Responded
    /\ Cardinality(Adds) = 2
    /\ Cardinality(Ok(Removes)) = 1

----------------------------------------------------------------------------
(* C11: a /move or /add request with a valid key whose target_playlist is
   absent, null or empty is answered 403 by the handler's first step: it
   does not crash, constructs no Puller and sends no request. *)
C11_MissingTarget ==
    (request.action \in {"move", "add"} /\ ValidKey /\ ~HasTarget) =>
        /\ constructed = 0
        /\ log = <<>>
        /\ outcome \in {"running", "returned"}
        /\ Responded => ret = Response(Msg("No target_playlist", "", ""), 403)

(* C12: a /move or /add request with a valid key, a track playing and a
   target name that matches no playlist or several, once answered, carries
   status 403 and the "No such playlist" message. *)
C12_UnmatchedIs403 ==
    (request.action \in {"move", "add"} /\ ValidKey /\ HasTarget /\ Playing
       /\ Cardinality(NameMatches) # 1 /\ Responded) =>
        /\ ret.msg.text = "No such playlist '{}'"
        /\ ret.status = 403

----------------------------------------------------------------------------
(* The cases of a snapshot run *)

SnapshotKeys ==
    {"playlists", "recently_played", "devices",
     "top_artists_short", "top_artists_medium", "top_artists_long",
     "top_tracks_short", "top_tracks_medium", "top_tracks_long",
     "followed_artists", "saved_albums", "saved_tracks"}
\* the keys whose endpoints answer with a paging object
PagedKeys == SnapshotKeys \ {"playlists", "devices"}

\* the Snapshot Document of the u-th upload
Document(u) == uploaded[u].body.of.of

\* the full playlists of the library, each with all tracks of all its pages
\* as one plain sequence
MaterializedPlaylists ==
    [k \in 1..Len(library) |->
        [FullPlaylist(library[k]) EXCEPT
            !.tracks = ConcatItems(PagesFrom(PoolTracks(library[k]), 0))]]

(* C13: every uploaded Snapshot Document has exactly the 12 keys; its
   playlists are the materialized playlists, its devices the device list,
   and every other value is not null and holds all items of all pages of its
   endpoint, with no `next` cursor left. *)
C13_SnapshotComplete ==
    \A u \in 1..Len(uploaded) :
        /\ DOMAIN Document(u) = SnapshotKeys
        /\ Document(u).playlists = MaterializedPlaylists
        /\ Document(u).devices = [devices |-> <<"d1">>]
        /\ \A k \in PagedKeys :
              /\ Document(u)[k] # None
              /\ Document(u)[k].next = NoUrl
              /\ Document(u)[k].items = ConcatItems(PagesFrom(Collection, 0))

----------------------------------------------------------------------------
\* the place of a request in a snapshot run: 0 for the token exchange, then
\* the fetches in the order the run is to make them
Phase(req) ==
    CASE req.url.path = URLS.token -> 0
      [] req.url.path \in {URLS.list_playlists, URLS.playlist} -> 1
      [] req.url.path = URLS.recently_played -> 2
      [] req.url.path = URLS.devices -> 3
      [] req.url.path = URLS.top /\ req.url.a = "artists" ->
            (CASE req.url.b = "short_term" -> 4
               [] req.url.b = "medium_term" -> 5
               [] OTHER -> 6)
      [] req.url.path = URLS.top /\ req.url.a = "tracks" ->
            (CASE req.url.b = "short_term" -> 7
               [] req.url.b = "medium_term" -> 8
               [] OTHER -> 9)
      [] req.url.path = URLS.followed_artists -> 10
      [] req.url.path = URLS.saved_albums -> 11
      [] req.url.path = URLS.saved_tracks -> 12
      [] OTHER -> 13
Fetches == 1..12

\* every fetch has been made and the last response received was a success
AllFetched ==
    /\ \A f \in Fetches : \E i \in Ok(Requests) : Phase(log[i].req) = f
    /\ lastStatus \in Success

(* C14: in a run of pull the first request is the token exchange and the
   only one; the requests of the fetches follow in the order playlists,
   recently played, devices, top artists short/medium/long, top tracks
   short/medium/long, followed artists, saved albums, saved tracks, no
   request of an earlier fetch coming after one of a later fetch; there is
   at most one upload, it is made when all twelve fetches have succeeded, no
   request is sent with or after it, and a run that returns has made it. *)
C14_SnapshotOrder ==
    /\ [](/\ \A i \in Requests : Phase(log[i].req) = 0 <=> i = 1
          /\ \A i, j \in Requests : i < j => Phase(log[i].req) <= Phase(log[j].req)
          /\ \A i \in Requests : Phase(log[i].req) \in 0..12
          /\ Len(uploaded) <= 1
          /\ uploaded # <<>> => AllFetched
          /\ outcome = "returned" => Len(uploaded) = 1)
    /\ [][/\ uploaded' # uploaded => (uploaded = <<>> /\ AllFetched /\ log' = log)
          /\ uploaded # <<>> => log' = log]_vars

\* a run that returned after two requests had to be sent again, with
\* playlists and collections longer than one page
C14_Witness ==
    /\ outcome = "returned"
    /\ Len(uploaded) = 1
    /\ faults = 2
    /\ Len(library) = 3

----------------------------------------------------------------------------
Aborted == outcome \in {"exited", "crashed"}

(* C15: a run of pull in which a response was 400 or 403 has aborted; a run
   that aborted, by exit() or by an uncaught exception, has uploaded
   nothing; and an upload is only made by a run in which no request was
   answered 400, 403 or 429. *)
C15_NoPartialSnapshot ==
    /\ \A i \in Requests : log[i].class = "fatal" => Aborted
    /\ Aborted => uploaded = <<>>
    /\ uploaded # <<>> => \A i \in Requests : log[i].class \in {"ok", "other"}

\* the last fetch, saved tracks, answered 400 or 403 after all the others
\* succeeded
C15_Witness ==
    /\ outcome = "exited"
    /\ Len(log) \in Requests
    /\ Phase(log[Len(log)].req) = 12
    /\ log[Len(log)].class = "fatal"
    /\ \A f \in 1..11 : \E i \in Ok(Requests) : Phase(log[i].req) = f

----------------------------------------------------------------------------
PlaylistReads == {i \in Requests : log[i].req.url.path = URLS.playlist}

(* C16: a call of get_playlists that returns, whatever requests were sent
   again on the way, returns one full playlist per playlist of the library,
   in the order of the playlist list, each with `tracks` the plain sequence
   of all tracks of all pages of that playlist. *)
C16_Materialized ==
    (request.action = "get_playlists" /\ outcome = "returned") =>
        /\ Len(ret) = Len(ListedPlaylists)
        /\ \A k \in 1..Len(ret) :
              /\ ret[k].id = ListedPlaylists[k].id
              /\ ret[k].type = "full"
              /\ ret[k].tracks = ConcatItems(PagesFrom(PoolTracks(library[k]), 0))
        /\ ret = MaterializedPlaylists

\* get_playlists returned for a library of three playlists after the list
\* request and a playlist request were each answered 5xx once
C16_Witness ==
    /\ request.action = "get_playlists"
    /\ outcome = "returned"
    /\ Len(library) = 3
    /\ \E i \in ListReads : log[i].class = "other"
    /\ \E i \in PlaylistReads : log[i].class = "other"

----------------------------------------------------------------------------
TokenPosts == {i \in Requests : log[i].req = TokenRequest}

(* C17: the run constructs one Puller, which sends exactly one token POST,
   as the first request of all and without a bearer token; every later
   request carries the token that POST obtained, which is the token the
   Puller holds; and once obtained the token the Puller holds never changes,
   whatever responses follow. *)
C17_TokenLifetime ==
    /\ [](/\ constructed <= 1
          /\ issued <= 1
          /\ TokenPosts = Requests \cap {1}
          /\ constructed = 1 <=> (TokenPosts = {1} /\ log[1].class = "ok")
          /\ Requests \ {1} # {} => constructed = 1
          /\ \A i \in Requests \ {1} :
                /\ log[i].req.auth = issued
                /\ log[i].req.auth = access_token
                /\ log[i].req.auth # 0)
    /\ [][constructed = 1 => /\ access_token' = access_token
                             /\ issued' = issued
                             /\ constructed' = constructed]_vars

\* more requests than fetches have been sent with the token, one of them
\* sent again after a 5xx answer
C17_Witness ==
    /\ constructed = 1
    /\ Cardinality(Authenticated) > 12
    /\ \E i \in Authenticated : log[i].class = "other"
    /\ access_token = 1

----------------------------------------------------------------------------
Ended == outcome # "running"
SourceUndefined ==
    /\ outcome = "crashed"
    /\ error = "UnboundLocalError: local variable 'source_id' referenced before assignment"

(* C18: a remove call is only ever sent under a playlist context, and then
   for the playlist of that context.  With a valid key and a track playing
   under another context type: /del is never answered and, if no response
   was a failure, ends in the error of the undefined source id; /move with a
   target naming exactly one playlist is never answered and ends the same
   way, and with any other target is answered at most with the 'No such
   playlist' message; /add never meets that error, and with a target naming
   exactly one playlist and no failing response ends answered 200 with the
   'added' message after one successful add call. *)
C18_SourceExtraction ==
    /\ \A i \in Removes :
          /\ PlaylistContext
          /\ log[i].req.url.a = SourcePlaylist
    /\ (ValidKey /\ Playing /\ OtherContext) =>
          /\ request.action = "del" =>
                /\ ~Responded
                /\ (Ended /\ faults = 0) => SourceUndefined
          /\ (request.action = "move" /\ HasTarget) =>
                /\ Responded => ret.msg.text = "No such playlist '{}'"
                /\ Cardinality(NameMatches) = 1 =>
                      /\ ~Responded
                      /\ (Ended /\ faults = 0) => SourceUndefined
          /\ (request.action = "add" /\ HasTarget) =>
                /\ ~SourceUndefined
                /\ (Cardinality(NameMatches) = 1 /\ Ended /\ faults = 0) =>
                      /\ Responded
                      /\ ret.status = 200
                      /\ ret.msg.text = "\"{}\" added to \"{}\""
                      /\ Cardinality(Ok(Adds)) = 1

\* /move of a track played from an album, stopped by the undefined source id
\* after the add call
C18_Witness ==
    /\ request.action = "move"
    /\ ValidKey /\ HasTarget /\ Playing /\ OtherContext
    /\ Cardinality(NameMatches) = 1
    /\ SourceUndefined
    /\ Ok(Adds) # {}

----------------------------------------------------------------------------
(* C19: in every /move request each remove call, first or sent again, comes
   after an add call that was answered 200/201; so a track that has been
   removed has been added; and when an add call was answered 400/403 or 429,
   or no add call has succeeded yet, no remove call has been sent. *)
C19_AddBeforeRemove ==
    request.action = "move" =>
        /\ \A i \in Removes : \E j \in Ok(Adds) : j < i
        /\ Ok(Removes) # {} => Ok(Adds) # {}
        /\ (\E j \in Adds : log[j].class \in {"fatal", "limited"}) => Removes = {}
        /\ (Adds # {} /\ Ok(Adds) = {}) => Removes = {}

\* /move answered after the remove call had to be sent twice
C19_Witness ==
    /\ request.action = "move"
    /\ Responded
    /\ Cardinality(Removes) = 2
    /\ Cardinality(Ok(Removes)) = 1
    /\ Cardinality(Ok(Adds)) = 1

----------------------------------------------------------------------------
(* C20: a control request that has ended otherwise than answered 200 (it was
   answered 403, or the handler failed) although every response of the API
   was a success, has made no successful add call and no successful remove
   call. *)
C20_FailureLeavesNoMutation ==
    (Ended /\ faults = 0 /\ ~(Responded /\ ret.status = 200)) =>
        /\ Ok(Adds) = {}
        /\ Ok(Removes) = {}

=============================================================================
